---- MODULE Spec2Model ----
(***************************************************************************)
(* VideoResizer: the React front end (VideoProcessor, ProcessingOptions,   *)
(* VideoTimeline, AspectRatioPreview, the axios client) and the            *)
(* processing pipeline's orchestrator.                                     *)
(*                                                                         *)
(* Conventions.                                                            *)
(*  - A React handler runs against the state of the render it was created  *)
(*    in: the state variables it READS are the unprimed ones, the setX     *)
(*    calls it makes are the primed ones.  updateOptions therefore builds  *)
(*    the options record from the state BEFORE the handler's own setX      *)
(*    calls, overridden only by the `updates` argument.                    *)
(*  - An optional JavaScript value is a sequence of length 0 (undefined /  *)
(*    null / NaN) or 1 (the value).                                        *)
(*  - Times are integers in units of 0.05 s, so that 0.1 s is Tenth units. *)
(***************************************************************************)
EXTENDS Integers, Sequences, FiniteSets, TLC

\* ------------------------------------------------------------------ bounds

\* Longest main video, in time units.
MaxDuration == 4

\* Largest number typed into a custom width/height field.
MaxCustom == 2

\* Number of preview requests the component issues in a behaviour.
MaxPreviewCalls == 3

\* The largest input size of a job (the engine's timeout is proportional to it).
MaxAssetSize == 2

\* The largest multiple of 100 MB around which file sizes are dropped.
MaxHundreds == 2

\* ------------------------------------------------------------ JS values

Undefined == <<>>

Def(v) == <<v>>

IsDef(o) == o # <<>>

\* JavaScript truthiness of an optional boolean (undefined is falsy).
Truthy(o) == IF o = <<>> THEN FALSE ELSE o[1]

\* "no video": useState(null) of mainVideo / ctaVideo.
NoVideo == [fileId |-> "", duration |-> 0, size |-> <<0, 0>>]

\* The uploads the user can make: two files of different length.
MainVideos ==
    { [fileId |-> "main1", duration |-> MaxDuration, size |-> <<1920, 1080>>],
      [fileId |-> "main2", duration |-> MaxDuration - 1,
       size |-> <<404, 400>>] }

\* 0.1 (seconds) in time units: the slider's step and the clamping margin.
Tenth == 2

VARIABLES
    \* VideoProcessor (part_002): useState of lines 29-35
    mainVideo, ctaVideo, isProcessing, error, success, processingOptions,
    processedVideo,
    \* the POST /process call of handleProcessVideo, as the axios client sees it
    request, pending, retryCount, posts, rejection,
    \* ProcessingOptions: useState of lines 1587-1607
    enableTimeCrop, enableRatioChange, enableCta, startTime, endTime,
    selectedRatioPreset, customWidth, customHeight, resizeMethod,
    blurBackground, optCtaVideo, qualityPreset,
    \* VideoTimeline: isPlaying and previewProgress (useState of lines 59, 63)
    \* and the preview <video>'s currentTime and paused
    isPlaying, playhead, paused, previewProgress,
    \* AspectRatioPreview: its useState of lines 35-38 and its preview requests
    previewFileId, loading, previewError, lastRequestString,
    previewsIssued, previewsInFlight, previewsSucceeded,
    \* PipelineOrchestrator (spec.md 3, 4.8): the Job {spec, stage,
    \* tempArtifacts}, the engine invocation in progress and its clock, the
    \* outcome handed to the caller, and the record of what the job did
    jobSpec, stage, tempArtifacts, active, elapsed, jobError, result,
    history, engineCalls, artifactsCreated,
    \* the caller's cancellation of the job; the uploaded assets; a second
    \* job on the same assets, with its own arena
    cancelRequested, assets, peerStage, peerArena,
    \* VideoUpload (the main video's): the file of the last drop, the last
    \* alert, and the POST /upload of uploadVideo as the axios client sees it
    dropped, alertText, upPending, upRetryCount, upAttempts, uploadTimeout,
    configTimeout,
    \* GeometryPlanner (spec.md 4.2): the last plan it emitted
    plan

vpVars == <<mainVideo, ctaVideo, isProcessing, error, success, processingOptions,
            processedVideo>>
netVars == <<request, pending, retryCount, posts, rejection>>
timeVars == <<enableTimeCrop, startTime, endTime>>
ratioVars == <<enableRatioChange, selectedRatioPreset, customWidth, customHeight,
               resizeMethod, blurBackground>>
otherOptVars == <<enableCta, optCtaVideo, qualityPreset>>
tlVars == <<isPlaying, playhead, paused, previewProgress>>
previewState == <<previewFileId, loading, previewError, lastRequestString>>
previewCalls == <<previewsIssued, previewsInFlight, previewsSucceeded>>
pvVars == <<previewState, previewCalls>>
uiVars == <<vpVars, netVars, timeVars, ratioVars, otherOptVars, tlVars>>
peerVars == <<peerStage, peerArena>>
jobVars == <<jobSpec, stage, tempArtifacts, active, elapsed, jobError, result,
             history, engineCalls, artifactsCreated, cancelRequested, assets,
             peerVars>>
upVars == <<dropped, alertText, upPending, upRetryCount, upAttempts,
            uploadTimeout, configTimeout>>
vars == <<uiVars, pvVars, jobVars, upVars, plan>>

\* ------------------------------------------------- ProcessingOptions.tsx

ASPECT_RATIO_PRESETS ==
    << [label |-> "9:16",   width |-> 9,  height |-> 16],
       [label |-> "16:9",   width |-> 16, height |-> 9],
       [label |-> "1:1",    width |-> 1,  height |-> 1],
       [label |-> "4:3",    width |-> 4,  height |-> 3],
       [label |-> "4:5",    width |-> 4,  height |-> 5],
       [label |-> "21:9",   width |-> 21, height |-> 9],
       [label |-> "Custom", width |-> 0,  height |-> 0] >>

\* The presets are indexed from 0 in the source and from 1 here.
PresetAt(i) == ASPECT_RATIO_PRESETS[i + 1]

PresetIndexes == 0..(Len(ASPECT_RATIO_PRESETS) - 1)

RESIZE_METHODS == {"crop", "pad", "stretch"}

QUALITY_PRESETS == {"lossless", "high", "medium", "low"}

OptionFields ==
    { "enable_time_crop", "enable_ratio_change", "enable_cta", "start_time",
      "end_time", "target_ratio", "resize_method", "blur_background",
      "cta_video_id", "quality_preset" }

\* updateOptions, lines 1611-1614: the ratio of the preset selected in the
\* render the handler belongs to.
targetRatio ==
    IF PresetAt(selectedRatioPreset).label = "Custom"
    THEN [width |-> customWidth, height |-> customHeight]
    ELSE [width  |-> PresetAt(selectedRatioPreset).width,
          height |-> PresetAt(selectedRatioPreset).height]

\* The record updateOptions spreads `updates` over (lines 1617-1631), built
\* from the component state of the current render.
stateOptions ==
    [f \in OptionFields |->
        CASE f = "enable_time_crop"    -> Def(enableTimeCrop)
          [] f = "enable_ratio_change" -> Def(enableRatioChange)
          [] f = "enable_cta"          -> Def(enableCta)
          [] f = "start_time"          -> Def(startTime)
          [] f = "end_time"            -> Def(endTime)
          [] f = "target_ratio"        ->
                IF enableRatioChange THEN Def(targetRatio) ELSE Undefined
          [] f = "resize_method"       -> Def(resizeMethod)
          [] f = "blur_background"     -> Def(blurBackground)
          [] f = "cta_video_id"        ->
                IF optCtaVideo = NoVideo THEN Undefined ELSE Def(optCtaVideo.fileId)
          [] f = "quality_preset"      -> Def(qualityPreset)]

\* updateOptions(updates): what onChange receives.  `updates` is a function
\* from some of the option fields to optional values.
updateOptions(updates) ==
    [f \in OptionFields |->
        IF f \in DOMAIN updates THEN updates[f] ELSE stateOptions[f]]

\* onChange={setProcessingOptions} (part_002 line 176).
Emit(updates) == processingOptions' = updateOptions(updates)

NoUpdates == <<>>

\* disabled={isProcessing} (part_002 line 177).
disabled == isProcessing

\* ------------------------------------------------ AspectRatioPreview.tsx

\* {mainVideo && (<AspectRatioPreview .../>)}, ProcessingOptions lines
\* 2332-2340: the preview is rendered once a main video is there.
previewMounted == mainVideo # NoVideo

\* enabled={enableRatioChange}, line 2337.
enabled == enableRatioChange

\* createPreviewRequest (ProcessingOptions lines 1722-1739), the previewRequest
\* prop; JSON.stringify(previewRequest) shows exactly these fields.
createPreviewRequest ==
    [ main_video_id    |-> mainVideo.fileId,
      target_ratio     |-> targetRatio,
      resize_method    |-> resizeMethod,
      blur_background  |-> blurBackground,
      enable_time_crop |-> enableTimeCrop,
      start_time       |-> startTime ]

\* The effect of lines 59-72, run after the render that ends a handler: for
\* a new request string it stores the string and sets the 500 ms timer;
\* storing the string renders the component again, lastRequestString is one
\* of the effect's dependencies, so the effect's cleanup clears the timer
\* (line 71) and the effect then returns at line 63: the timer never runs
\* generatePreview.
autoGenerateEffect ==
    lastRequestString' =
        IF /\ previewMounted' /\ enabled'
           /\ Def(createPreviewRequest') # lastRequestString
        THEN Def(createPreviewRequest')
        ELSE lastRequestString

\* What a render of ProcessingOptions does to the preview below it.
previewRendered ==
    /\ autoGenerateEffect
    /\ UNCHANGED <<previewFileId, loading, previewError, previewCalls>>

\* --------------------------------------------------- part_002 (uploads)

Null == "null"

\* handleMainVideoUpload (part_002 lines 37-41), called by VideoUpload.onDrop
\* once the upload has answered.  The timeline's <video> gets a new source:
\* playback stops and its currentTime is 0 again.
handleMainVideoUpload(v) ==
    /\ mainVideo' = v
    /\ error' = Null
    /\ success' = "Successfully uploaded"
    /\ isPlaying' = FALSE
    /\ playhead' = 0
    /\ paused' = TRUE
    /\ UNCHANGED previewProgress
    /\ UNCHANGED <<ctaVideo, isProcessing, processingOptions, processedVideo, netVars>>
    /\ UNCHANGED <<timeVars, ratioVars, otherOptVars>>

MainVideoUpload == \E v \in MainVideos : handleMainVideoUpload(v)
    /\ previewRendered
    /\ UNCHANGED <<jobVars, upVars, plan>>

\* ------------------------------------------- time cropping (the timeline)

Min(a, b) == IF a < b THEN a ELSE b

Max(a, b) == IF a > b THEN a ELSE b

Abs(n) == IF n < 0 THEN 0 - n ELSE n

duration == mainVideo.duration

\* {enableTimeCrop && mainVideo && (<VideoTimeline .../>)}, lines 1820-1830.
TimelineMounted == enableTimeCrop /\ mainVideo # NoVideo

\* The endTime prop: endTime={endTime || mainVideo.info.duration}, line 1826.
propEndTime == IF endTime = 0 THEN duration ELSE endTime

\* A media element keeps its currentTime within [0, duration].
Seek(t) == Max(0, Min(duration, t))

\* ((time - startTime) / selectionDuration) * 100 of line 277 for an empty
\* selection: 0 / 0.
NaN == 0 - 1

\* The progress within the selection (line 277), in whole percent.
progress(time, st, en) ==
    IF en = st THEN NaN ELSE (100 * (time - st)) \div (en - st)

\* A listener that shows the progress and never stops the video.
updateTimeWithoutStop(time, st, en, playing) ==
    /\ previewProgress' = IF time >= st /\ time <= en
                          THEN progress(time, st, en)
                          ELSE previewProgress
    /\ isPlaying' = (playing /\ time < duration)
    /\ paused' = ~(playing /\ time < duration)

\* The timeupdate listener updateTime (lines 271-287) of the render with the
\* props startTime = st, endTime = en and the state isPlaying = playing,
\* called with video.currentTime = time: video.pause() fires the pause
\* listener (line 290); at the end of the file the element pauses itself and
\* fires pause and ended (lines 290-291).
updateTime(time, st, en, playing) ==
    /\ previewProgress' = IF time >= en /\ playing THEN 100
                          ELSE IF time >= st /\ time <= en
                               THEN progress(time, st, en)
                               ELSE previewProgress
    /\ isPlaying' = (playing /\ time < en /\ time < duration)
    /\ paused' = ~(playing /\ time < en /\ time < duration)

\* video.currentTime = t: the element seeks and fires timeupdate.
seekTo(t, st, en, playing) ==
    /\ playhead' = Seek(t)
    /\ updateTime(Seek(t), st, en, playing)

\* handleTimeChange (ProcessingOptions lines 1636-1643).
handleTimeChange(newStartTime, newEndTime) ==
    /\ startTime' = newStartTime
    /\ endTime' = newEndTime
    /\ Emit([start_time |-> Def(newStartTime), end_time |-> Def(newEndTime)])
    /\ UNCHANGED <<enableTimeCrop, mainVideo, ctaVideo, isProcessing, error, success,
                   processedVideo, netVars>>
    /\ UNCHANGED <<ratioVars, otherOptVars>>

\* handleTimeCropToggle (lines 1645-1656); the Switch hands over the negation
\* of what it shows.  Toggling mounts or unmounts the timeline, whose video
\* element and isPlaying state start afresh.
handleTimeCropToggle(checked) ==
    /\ enableTimeCrop' = checked
    /\ IF checked /\ mainVideo # NoVideo
       THEN /\ endTime' = duration
            /\ Emit([enable_time_crop |-> Def(checked), end_time |-> Def(duration)])
       ELSE /\ endTime' = endTime
            /\ Emit([enable_time_crop |-> Def(checked)])
    /\ isPlaying' = FALSE
    /\ playhead' = 0
    /\ paused' = TRUE
    /\ previewProgress' = 0
    /\ UNCHANGED <<startTime, mainVideo, ctaVideo, isProcessing, error, success,
                   processedVideo, netVars>>
    /\ UNCHANGED <<ratioVars, otherOptVars>>

TimeCropToggle == ~disabled /\ handleTimeCropToggle(~enableTimeCrop)
    /\ previewRendered
    /\ UNCHANGED <<jobVars, upVars, plan>>

\* The values a thumb of <Slider min={0} max={duration} step={0.1}> can take.
SliderValues == { t \in 0..duration : t % Tenth = 0 \/ t = duration }

\* handleRangeChange (VideoTimeline lines 166-175): the slider hands over its
\* two thumbs in ascending order; they may coincide.
handleRangeChange(newStart, newEnd) ==
    /\ handleTimeChange(newStart, newEnd)
    /\ IF ~isPlaying
       THEN seekTo(newStart, startTime', propEndTime', FALSE)
       ELSE UNCHANGED tlVars

RangeChange ==
    /\ TimelineMounted /\ ~disabled
    /\ \E newStart \in SliderValues, newEnd \in SliderValues :
          newStart <= newEnd /\ handleRangeChange(newStart, newEnd)
    /\ previewRendered
    /\ UNCHANGED <<jobVars, upVars, plan>>

\* What parseFloat gives for the text of a time field: NaN or a number.
TypedTimes == {Undefined} \cup { Def(v) : v \in (0 - 1)..(MaxDuration + 1) }

\* parseFloat(text) || fallback: NaN and 0 are falsy.
ParseOr(typed, fallback) ==
    IF typed = Undefined THEN fallback
    ELSE IF typed[1] = 0 THEN fallback ELSE typed[1]

\* handleStartTimeChange (lines 178-185).
handleStartTimeChange(typed) ==
    LET value == ParseOr(typed, 0)
        clampedValue == Max(0, Min(value, propEndTime - Tenth))
    IN  /\ handleTimeChange(clampedValue, propEndTime)
        /\ IF ~isPlaying
           THEN seekTo(clampedValue, startTime', propEndTime', FALSE)
           ELSE UNCHANGED tlVars

StartTimeChange ==
    /\ TimelineMounted /\ ~disabled
    /\ \E typed \in TypedTimes : handleStartTimeChange(typed)
    /\ previewRendered
    /\ UNCHANGED <<jobVars, upVars, plan>>

\* handleEndTimeChange (lines 187-191).
handleEndTimeChange(typed) ==
    LET value == ParseOr(typed, duration)
        clampedValue == Min(duration, Max(value, startTime + Tenth))
    IN  /\ handleTimeChange(startTime, clampedValue)
        /\ UNCHANGED tlVars

EndTimeChange ==
    /\ TimelineMounted /\ ~disabled
    /\ \E typed \in TypedTimes : handleEndTimeChange(typed)
    /\ previewRendered
    /\ UNCHANGED <<jobVars, upVars, plan>>

\* handleSetStartTime (lines 193-200).
handleSetStartTime ==
    IF playhead < propEndTime
    THEN handleTimeChange(playhead, propEndTime) /\ UNCHANGED tlVars
    ELSE UNCHANGED vars

SetStartTime == TimelineMounted /\ ~disabled /\ handleSetStartTime
    /\ previewRendered
    /\ UNCHANGED <<jobVars, upVars, plan>>

\* handleSetEndTime (lines 202-209).
handleSetEndTime ==
    IF playhead > startTime
    THEN handleTimeChange(startTime, playhead) /\ UNCHANGED tlVars
    ELSE UNCHANGED vars

SetEndTime == TimelineMounted /\ ~disabled /\ handleSetEndTime
    /\ previewRendered
    /\ UNCHANGED <<jobVars, upVars, plan>>

\* handleTimelineClick (lines 212-222): the playhead goes where the user
\* clicks on the timeline bar.
handleTimelineClick(clickTime) ==
    /\ seekTo(clickTime, startTime, propEndTime, isPlaying)
    /\ UNCHANGED <<vpVars, netVars, timeVars, ratioVars, otherOptVars>>

TimelineClick ==
    /\ TimelineMounted
    /\ \E clickTime \in 0..duration : handleTimelineClick(clickTime)
    /\ previewRendered
    /\ UNCHANGED <<jobVars, upVars, plan>>

\* handlePlayPause (lines 145-155): pause, or seek to the start of the
\* selection and play.
handlePlayPause ==
    /\ IF isPlaying
       THEN /\ paused' = TRUE
            /\ isPlaying' = FALSE
            /\ UNCHANGED <<playhead, previewProgress>>
       ELSE seekTo(startTime, startTime, propEndTime, TRUE)
    /\ UNCHANGED <<vpVars, netVars, timeVars, ratioVars, otherOptVars>>

PlayPause == TimelineMounted /\ ~disabled /\ handlePlayPause
    /\ previewRendered
    /\ UNCHANGED <<jobVars, upVars, plan>>

\* handleReplay (lines 158-163).
handleReplay ==
    /\ seekTo(startTime, startTime, propEndTime, TRUE)
    /\ UNCHANGED <<vpVars, netVars, timeVars, ratioVars, otherOptVars>>

Replay == TimelineMounted /\ ~disabled /\ handleReplay
    /\ previewRendered
    /\ UNCHANGED <<jobVars, upVars, plan>>

\* The video plays on by one time unit and fires timeupdate.
VideoTimeUpdate ==
    /\ TimelineMounted
    /\ ~paused /\ playhead < duration
    /\ playhead' = playhead + 1
    /\ updateTime(playhead + 1, startTime, propEndTime, isPlaying)
    /\ UNCHANGED <<vpVars, netVars, timeVars, ratioVars, otherOptVars>>
    /\ previewRendered
    /\ UNCHANGED <<jobVars, upVars, plan>>

\* ------------------------------------------------ aspect ratio conversion

\* handleRatioChangeToggle (lines 1658-1661).
handleRatioChangeToggle(checked) ==
    /\ enableRatioChange' = checked
    /\ Emit([enable_ratio_change |-> Def(checked)])
    /\ UNCHANGED <<selectedRatioPreset, customWidth, customHeight, resizeMethod,
                   blurBackground>>
    /\ UNCHANGED <<mainVideo, ctaVideo, isProcessing, error, success,
                   processedVideo, netVars>>
    /\ UNCHANGED <<timeVars, otherOptVars, tlVars>>

RatioChangeToggle == ~disabled /\ handleRatioChangeToggle(~enableRatioChange)
    /\ previewRendered
    /\ UNCHANGED <<jobVars, upVars, plan>>

\* {enableRatioChange && mainVideo && (...)}, line 1894: the preset cards, the
\* custom fields, the method cards and the letterbox options are rendered.
RatioSectionShown == enableRatioChange /\ mainVideo # NoVideo

\* handleRatioPresetChange (lines 1663-1666).
handleRatioPresetChange(presetIndex) ==
    /\ selectedRatioPreset' = presetIndex
    /\ Emit(NoUpdates)
    /\ UNCHANGED <<enableRatioChange, customWidth, customHeight, resizeMethod,
                   blurBackground>>
    /\ UNCHANGED <<mainVideo, ctaVideo, isProcessing, error, success,
                   processedVideo, netVars>>
    /\ UNCHANGED <<timeVars, otherOptVars, tlVars>>

RatioPresetChange ==
    /\ RatioSectionShown
    /\ \E presetIndex \in PresetIndexes : handleRatioPresetChange(presetIndex)
    /\ previewRendered
    /\ UNCHANGED <<jobVars, upVars, plan>>

\* What the user leaves in a custom width/height field: nothing, or a number.
TypedRatios == {Undefined} \cup { Def(v) : v \in (0 - 1)..MaxCustom }

\* Number(e.target.value): the empty text is 0.
Number(typed) == IF typed = Undefined THEN 0 ELSE typed[1]

\* selectedRatioPreset === ASPECT_RATIO_PRESETS.length - 1, line 2009.
CustomFieldsShown ==
    RatioSectionShown /\ selectedRatioPreset = Len(ASPECT_RATIO_PRESETS) - 1

\* onChange of the Width field (lines 2020-2023).
customWidthChange(typed) ==
    /\ customWidth' = Number(typed)
    /\ Emit(NoUpdates)
    /\ UNCHANGED <<enableRatioChange, selectedRatioPreset, customHeight,
                   resizeMethod, blurBackground>>
    /\ UNCHANGED <<mainVideo, ctaVideo, isProcessing, error, success,
                   processedVideo, netVars>>
    /\ UNCHANGED <<timeVars, otherOptVars, tlVars>>

CustomWidthChange ==
    CustomFieldsShown /\ \E typed \in TypedRatios : customWidthChange(typed)
    /\ previewRendered
    /\ UNCHANGED <<jobVars, upVars, plan>>

\* onChange of the Height field (lines 2033-2036).
customHeightChange(typed) ==
    /\ customHeight' = Number(typed)
    /\ Emit(NoUpdates)
    /\ UNCHANGED <<enableRatioChange, selectedRatioPreset, customWidth,
                   resizeMethod, blurBackground>>
    /\ UNCHANGED <<mainVideo, ctaVideo, isProcessing, error, success,
                   processedVideo, netVars>>
    /\ UNCHANGED <<timeVars, otherOptVars, tlVars>>

CustomHeightChange ==
    CustomFieldsShown /\ \E typed \in TypedRatios : customHeightChange(typed)
    /\ previewRendered
    /\ UNCHANGED <<jobVars, upVars, plan>>

\* handleResizeMethodChange (lines 1668-1675).
handleResizeMethodChange(method) ==
    /\ resizeMethod' = method
    /\ blurBackground' = IF method # "pad" THEN FALSE ELSE blurBackground
    /\ Emit([resize_method |-> Def(method)])
    /\ UNCHANGED <<enableRatioChange, selectedRatioPreset, customWidth, customHeight>>
    /\ UNCHANGED <<mainVideo, ctaVideo, isProcessing, error, success,
                   processedVideo, netVars>>
    /\ UNCHANGED <<timeVars, otherOptVars, tlVars>>

ResizeMethodChange ==
    /\ RatioSectionShown
    /\ \E method \in RESIZE_METHODS : handleResizeMethodChange(method)
    /\ previewRendered
    /\ UNCHANGED <<jobVars, upVars, plan>>

\* onChange of the Blurred Background switch (lines 2142-2145), rendered under
\* {resizeMethod === 'pad' && ...} (line 2122).
blurBackgroundChange(checked) ==
    /\ blurBackground' = checked
    /\ Emit([blur_background |-> Def(checked)])
    /\ UNCHANGED <<enableRatioChange, selectedRatioPreset, customWidth, customHeight,
                   resizeMethod>>
    /\ UNCHANGED <<mainVideo, ctaVideo, isProcessing, error, success,
                   processedVideo, netVars>>
    /\ UNCHANGED <<timeVars, otherOptVars, tlVars>>

BlurBackgroundChange ==
    /\ RatioSectionShown /\ resizeMethod = "pad" /\ ~disabled
    /\ blurBackgroundChange(~blurBackground)
    /\ previewRendered
    /\ UNCHANGED <<jobVars, upVars, plan>>

\* The "Aspect Ratio Check" box (lines 2229-2267) is rendered inside the
\* ratio section, the Letterbox options and the blur settings.
blurCheckShown ==
    RatioSectionShown /\ resizeMethod = "pad" /\ blurBackground

\* ratiosMatch (lines 2247-2253): Math.abs(currentW / currentH - targetRatio)
\* < 0.01, on the ratios as fractions; a custom height of 0 makes the target
\* Infinity or NaN and the comparison false.
ratiosMatch ==
    /\ PresetAt(selectedRatioPreset).label = "Custom" => customHeight # 0
    /\ 100 * Abs(mainVideo.size[1] * targetRatio.height
                    - targetRatio.width * mainVideo.size[2])
           < Abs(mainVideo.size[2] * targetRatio.height)

\* The Alert shown (lines 2255-2265).
blurAlert ==
    IF ~blurCheckShown THEN "none"
    ELSE IF ratiosMatch THEN "Same Aspect Ratio" ELSE "Perfect!"

\* ------------------------------------------------------- call to action

CtaVideos ==
    { [fileId |-> "cta1", duration |-> MaxDuration, size |-> <<1920, 1080>>] }

\* handleCtaToggle (ProcessingOptions lines 1677-1680).
handleCtaToggle(checked) ==
    /\ enableCta' = checked
    /\ Emit([enable_cta |-> Def(checked)])
    /\ UNCHANGED <<optCtaVideo, qualityPreset>>
    /\ UNCHANGED <<mainVideo, ctaVideo, isProcessing, error, success,
                   processedVideo, netVars>>
    /\ UNCHANGED <<timeVars, ratioVars, tlVars>>

CtaToggle == ~disabled /\ handleCtaToggle(~enableCta)
    /\ previewRendered
    /\ UNCHANGED <<jobVars, upVars, plan>>

\* handleCtaVideoUpload of ProcessingOptions (lines 1682-1686), which calls
\* handleCtaVideoUpload of VideoProcessor (part_002 lines 43-47).
handleCtaVideoUpload(v) ==
    /\ optCtaVideo' = v
    /\ ctaVideo' = v
    /\ error' = Null
    /\ success' = "Successfully uploaded CTA video"
    /\ Emit([cta_video_id |-> Def(v.fileId)])
    /\ UNCHANGED <<enableCta, qualityPreset>>
    /\ UNCHANGED <<mainVideo, isProcessing, processedVideo, netVars>>
    /\ UNCHANGED <<timeVars, ratioVars, tlVars>>

\* The CTA VideoUpload is rendered under {enableCta && ...} (line 2395).
CtaVideoUpload == enableCta /\ \E v \in CtaVideos : handleCtaVideoUpload(v)
    /\ previewRendered
    /\ UNCHANGED <<jobVars, upVars, plan>>

\* onDelete of the CTA Chip (lines 2406-2409), rendered under
\* {enableCta && ...} and {ctaVideo && ...}: the form forgets its CTA video
\* and emits the options without a cta_video_id; VideoProcessor's ctaVideo
\* has no setter call here.
ctaChipDelete ==
    /\ optCtaVideo' = NoVideo
    /\ Emit([cta_video_id |-> Undefined])
    /\ UNCHANGED <<enableCta, qualityPreset>>
    /\ UNCHANGED <<mainVideo, ctaVideo, isProcessing, error, success,
                   processedVideo, netVars>>
    /\ UNCHANGED <<timeVars, ratioVars, tlVars>>

CtaChipDelete == enableCta /\ optCtaVideo # NoVideo /\ ctaChipDelete
    /\ previewRendered
    /\ UNCHANGED <<jobVars, upVars, plan>>

\* onClick of a quality card (line 2465): setQualityPreset alone; nothing is
\* emitted to the parent (handleQualityChange, lines 1703-1707, has no
\* caller).
qualityCardClick(value) ==
    /\ qualityPreset' = value
    /\ UNCHANGED <<enableCta, optCtaVideo>>
    /\ UNCHANGED <<vpVars, netVars, timeVars, ratioVars, tlVars>>

QualityCardClick == \E value \in QUALITY_PRESETS : qualityCardClick(value)
    /\ previewRendered
    /\ UNCHANGED <<jobVars, upVars, plan>>

\* ------------------------------------ VideoUpload.tsx, utils, api (upload)

\* The formats the drop zone advertises (VideoUpload.tsx line 68).
AdvertisedFormats == {"MP4", "AVI", "MOV", "MKV", "WMV", "FLV"}

\* file.type as the browser reports it for a file of each format, as the
\* pair <<type, subtype>>; a text file stands for everything that is not a
\* video.
BrowserTypes ==
    {[format |-> "MP4", type |-> <<"video", "mp4">>],
     [format |-> "AVI", type |-> <<"video", "x-msvideo">>],
     [format |-> "AVI", type |-> <<"video", "avi">>],
     [format |-> "MOV", type |-> <<"video", "quicktime">>],
     [format |-> "MKV", type |-> <<"video", "x-matroska">>],
     [format |-> "WMV", type |-> <<"video", "x-ms-wmv">>],
     [format |-> "FLV", type |-> <<"video", "x-flv">>],
     [format |-> "TXT", type |-> <<"text", "plain">>]}

\* 2 * 1024 * 1024 * 1024 bytes, in MB (1024 * 1024 bytes).
maxSize == 2048

\* The file sizes dropped, in whole MB: around each multiple of 100 MB up to
\* MaxHundreds of them, and around maxSize.
FileSizes ==
    {0, 1} \cup {100 * k + d : k \in 1..MaxHundreds, d \in {-1, 0, 1}}
           \cup {maxSize - 1, maxSize, maxSize + 1}

Files ==
    {[format |-> b.format, type |-> b.type, size |-> n] :
        b \in BrowserTypes, n \in FileSizes}

NoFile == [format |-> "", type |-> <<"", "">>, size |-> 0]

\* useDropzone({accept: {'video/*': []}}): the files handed to onDrop.
dropzoneAccepts(file) == file.type[1] = "video"

allowedTypes ==
    {<<"video", "mp4">>, <<"video", "avi">>, <<"video", "mov">>,
     <<"video", "quicktime">>, <<"video", "x-msvideo">>}

\* validateVideoFile (types.ts lines 82-95).
validateVideoFile(file) ==
    IF file.type \notin allowedTypes
    THEN "Please select a valid video file (MP4, AVI, MOV)"
    ELSE IF file.size > maxSize
         THEN "File size must be less than 2GB"
         ELSE Null

\* Math.ceil(a / b) for whole a, b.
Ceil(a, b) == (a + b - 1) \div b

baseTimeout == 300000

\* uploadVideo's timeout option (api.ts lines 78-82).
uploadTimeoutOf(file) ==
    Max(baseTimeout, baseTimeout + Ceil(file.size, 100) * 60000)

\* An interceptor that counts the completed 100 MB only.
interceptorTimeoutFloor(file) ==
    Max(baseTimeout, baseTimeout + (file.size \div 100) * 60000)

\* The request interceptor's config.timeout (api.ts lines 31-34).
interceptorTimeout(file) ==
    Max(baseTimeout, baseTimeout + Ceil(file.size, 100) * 60000)

\* ---------------------------------------------- processing (part_002, api)

RequestFields == OptionFields \cup {"main_video_id"}

\* No request of handleProcessVideo exists (before the click, after the
\* handler has returned).
NoRequest == [f \in RequestFields |-> Undefined]

\* The await of processVideo has not thrown (part_002 lines 66, 72).
NoError == Undefined

\* A button that asks only for the main video.
canProcessWithoutFlags == mainVideo # NoVideo

\* canProcess (part_002 lines 79-83).
canProcess ==
    /\ mainVideo # NoVideo
    /\ \/ Truthy(processingOptions.enable_time_crop)
       \/ Truthy(processingOptions.enable_ratio_change)
       \/ Truthy(processingOptions.enable_cta)

\* The ProcessRequest of handleProcessVideo (part_002 lines 60-64).
ProcessRequest ==
    [f \in RequestFields |->
        CASE f = "main_video_id" -> Def(mainVideo.fileId)
          [] f = "cta_video_id"  ->
                IF ctaVideo = NoVideo THEN Undefined ELSE Def(ctaVideo.fileId)
          [] OTHER               -> processingOptions[f]]

\* handleProcessVideo up to its await (part_002 lines 49-66): processVideo
\* posts the request (api.ts lines 110-129).
handleProcessVideo ==
    IF mainVideo = NoVideo
    THEN /\ error' = "Please upload a main video first"
         /\ UNCHANGED <<mainVideo, ctaVideo, isProcessing, success,
                        processingOptions, processedVideo, netVars>>
         /\ UNCHANGED <<timeVars, ratioVars, otherOptVars, tlVars>>
    ELSE /\ isProcessing' = TRUE
         /\ error' = Null
         /\ success' = Null
         /\ request' = ProcessRequest
         /\ pending' = "sent"
         /\ retryCount' = 0
         /\ posts' = 1
         /\ rejection' = NoError
         /\ UNCHANGED <<mainVideo, ctaVideo, processingOptions, processedVideo>>
         /\ UNCHANGED <<timeVars, ratioVars, otherOptVars, tlVars>>

\* The Process Video button: disabled={!canProcess || isProcessing}
\* (part_002 line 186).
ProcessClick == canProcess /\ ~isProcessing /\ handleProcessVideo
    /\ previewRendered
    /\ UNCHANGED <<jobVars, upVars, plan>>

\* handleProcessVideo invoked while there is no main video: the button is
\* disabled then, so this is a call that does not come from a click (a test,
\* a script); the handler's own check of lines 50-53 answers it.
ProcessInvoke == mainVideo = NoVideo /\ ~isProcessing /\ handleProcessVideo
    /\ previewRendered
    /\ UNCHANGED <<jobVars, upVars, plan>>

\* The request is answered with a 2xx response: the response interceptor
\* passes it on (api.ts line 48) and handleProcessVideo resumes (part_002
\* lines 67-71, 74-76).
ProcessSucceeds ==
    /\ pending = "sent"
    /\ pending' = "none"
    /\ processedVideo' = "output"
    /\ success' = "Video processed successfully!"
    /\ isProcessing' = FALSE
    /\ request' = NoRequest
    /\ UNCHANGED <<mainVideo, ctaVideo, error, processingOptions>>
    /\ UNCHANGED <<retryCount, posts, rejection>>
    /\ UNCHANGED <<timeVars, ratioVars, otherOptVars, tlVars>>
    /\ previewRendered
    /\ UNCHANGED <<jobVars, upVars, plan>>

\* What handleApiError looks at in an error, and the interceptor's config.
ApiErrors ==
    [config : BOOLEAN, responseDataError : BOOLEAN, message : BOOLEAN]

\* An error handler without the fixed fallback text.
handleApiErrorWithoutFallback(err) ==
    IF err.responseDataError THEN "error.response.data.error"
    ELSE IF err.message THEN "error.message"
    ELSE Null

\* handleApiError (api.ts lines 148-156).
handleApiError(err) ==
    IF err.responseDataError THEN "error.response.data.error"
    ELSE IF err.message THEN "error.message"
    ELSE "An unexpected error occurred"

\* An interceptor that does not look at the retry count.
rejectsWithoutCount(err) == ~err.config

\* The interceptor's test of line 53: reject, or retry.
rejects(err) == ~err.config \/ retryCount >= 3

\* The request fails: the response interceptor (api.ts lines 49-66) either
\* rejects, and handleProcessVideo resumes in its catch (part_002 lines
\* 72-76), or counts a retry and waits.
processFails(err) ==
    /\ pending = "sent"
    /\ IF rejects(err)
       THEN /\ pending' = "none"
            /\ error' = handleApiError(err)
            /\ isProcessing' = FALSE
            /\ request' = NoRequest
            /\ rejection' = Def(err)
            /\ UNCHANGED retryCount
       ELSE /\ pending' = "retryWait"
            /\ retryCount' = retryCount + 1
            /\ UNCHANGED <<error, isProcessing, request, rejection>>
    /\ UNCHANGED <<mainVideo, ctaVideo, success, processingOptions, processedVideo>>
    /\ UNCHANGED posts
    /\ UNCHANGED <<timeVars, ratioVars, otherOptVars, tlVars>>

ProcessFails == \E err \in ApiErrors : processFails(err)
    /\ previewRendered
    /\ UNCHANGED <<jobVars, upVars, plan>>

\* The interceptor's 1000 ms are over: return api(config) (api.ts lines
\* 62-65) posts the same request again.
RetryRequest ==
    /\ pending = "retryWait"
    /\ pending' = "sent"
    /\ posts' = posts + 1
    /\ UNCHANGED <<request, retryCount, rejection>>
    /\ UNCHANGED <<vpVars, timeVars, ratioVars, otherOptVars, tlVars>>
    /\ previewRendered
    /\ UNCHANGED <<jobVars, upVars, plan>>

\* onDrop up to its await (VideoUpload.tsx lines 22-33); uploadVideo posts
\* the file with its timeout option and the request interceptor sets
\* config.timeout (api.ts lines 26-44, 74-90).  One upload at a time: the
\* user waits for the answer before dropping again.
onDrop(file) ==
    /\ dropped' = file
    /\ IF ~dropzoneAccepts(file)
       THEN /\ alertText' = Null
            /\ UNCHANGED <<upPending, upRetryCount, upAttempts, uploadTimeout,
                           configTimeout>>
       ELSE IF validateVideoFile(file) # Null
       THEN /\ alertText' = validateVideoFile(file)
            /\ UNCHANGED <<upPending, upRetryCount, upAttempts, uploadTimeout,
                           configTimeout>>
       ELSE /\ alertText' = Null
            /\ upPending' = "sent"
            /\ upRetryCount' = 0
            /\ upAttempts' = 1
            /\ uploadTimeout' = uploadTimeoutOf(file)
            /\ configTimeout' = interceptorTimeout(file)

Drop ==
    /\ upPending = "none"
    /\ \E file \in Files : onDrop(file)
    /\ UNCHANGED <<uiVars, pvVars, jobVars, plan>>

\* The upload is answered: onUpload(response...) (VideoUpload.tsx lines
\* 33-34) is handleMainVideoUpload.
UploadSucceeds ==
    /\ upPending = "sent"
    /\ upPending' = "none"
    /\ \E v \in MainVideos : handleMainVideoUpload(v)
    /\ UNCHANGED <<dropped, alertText, upRetryCount, upAttempts, uploadTimeout,
                   configTimeout>>
    /\ previewRendered
    /\ UNCHANGED <<jobVars, plan>>

uploadRejects(err) == ~err.config \/ upRetryCount >= 3

\* The upload fails: the response interceptor (api.ts lines 49-66) rejects,
\* and onDrop alerts (VideoUpload.tsx lines 35-37), or counts a retry and
\* waits.
uploadFails(err) ==
    /\ upPending = "sent"
    /\ IF uploadRejects(err)
       THEN /\ upPending' = "none"
            /\ alertText' = handleApiError(err)
            /\ UNCHANGED upRetryCount
       ELSE /\ upPending' = "retryWait"
            /\ upRetryCount' = upRetryCount + 1
            /\ UNCHANGED alertText
    /\ UNCHANGED <<dropped, upAttempts, uploadTimeout, configTimeout>>

UploadFails ==
    /\ \E err \in ApiErrors : uploadFails(err)
    /\ UNCHANGED <<uiVars, pvVars, jobVars, plan>>

\* return api(config) after the 1000 ms: the same FormData is posted again
\* and passes the request interceptor again.
UploadRetry ==
    /\ upPending = "retryWait"
    /\ upPending' = "sent"
    /\ upAttempts' = upAttempts + 1
    /\ configTimeout' = interceptorTimeout(dropped)
    /\ UNCHANGED <<dropped, alertText, upRetryCount, uploadTimeout>>
    /\ UNCHANGED <<uiVars, pvVars, jobVars, plan>>

\* ------------------------------------------------- the preview's requests

\* The Refresh button is rendered only when enabled (the early return of
\* AspectRatioPreview lines 79-90) and is disabled={loading} (line 115).
\* A Refresh button that stays enabled while a request is loading.
refreshEnabledWhileLoading == previewMounted /\ enabled

refreshEnabled == previewMounted /\ enabled /\ ~loading

\* generatePreview up to its await (lines 41-48): the request is issued.
generatePreview ==
    /\ enabled /\ previewMounted
    /\ loading' = TRUE
    /\ previewError' = Null
    /\ previewsIssued' = previewsIssued + 1
    /\ previewsInFlight' = previewsInFlight \cup {previewsIssued + 1}
    /\ UNCHANGED <<previewFileId, lastRequestString, previewsSucceeded>>

\* handleRefresh (lines 75-77).
handleRefresh == generatePreview

PreviewRefresh ==
    /\ refreshEnabled
    /\ previewsIssued < MaxPreviewCalls
    /\ handleRefresh
    /\ UNCHANGED <<uiVars, jobVars, upVars, plan>>

\* The response to request n arrives: lines 49, 53-55.  The preview file the
\* server made for request n is identified by n.
previewResponse(n) ==
    /\ previewFileId' = Def(n)
    /\ loading' = FALSE
    /\ previewsInFlight' = previewsInFlight \ {n}
    /\ previewsSucceeded' = previewsSucceeded \cup {n}
    /\ UNCHANGED <<previewError, lastRequestString, previewsIssued>>

PreviewResponse ==
    /\ \E n \in previewsInFlight : previewResponse(n)
    /\ UNCHANGED <<uiVars, jobVars, upVars, plan>>

\* Request n fails: lines 50-55.
previewFailure(n) ==
    /\ previewError' = "Failed to generate preview"
    /\ loading' = FALSE
    /\ previewsInFlight' = previewsInFlight \ {n}
    /\ UNCHANGED <<previewFileId, lastRequestString, previewsIssued,
                   previewsSucceeded>>

PreviewFailure ==
    /\ \E n \in previewsInFlight : previewFailure(n)
    /\ UNCHANGED <<uiVars, jobVars, upVars, plan>>

\* ------------------------------------------ GeometryPlanner (spec.md 4.2)

\* Source sizes <<width, height>>: common video sizes, one whose ratio is
\* within the tolerance of 16:9 without being equal to it, one with odd
\* dimensions.
SourceSizes ==
    {<<1920, 1080>>, <<1280, 720>>, <<1080, 1920>>, <<720, 1280>>,
     <<1080, 1080>>, <<640, 480>>, <<2560, 1080>>, <<1080, 1350>>,
     <<1440, 1080>>, <<3840, 2160>>, <<1930, 1080>>, <<1921, 1081>>}

\* Target ratios with positive dimensions: the presets and small custom ones.
TargetRatios ==
    {[width |-> ASPECT_RATIO_PRESETS[i].width,
      height |-> ASPECT_RATIO_PRESETS[i].height] :
        i \in 1..(Len(ASPECT_RATIO_PRESETS) - 1)}
    \cup [width : 1..MaxCustom, height : 1..MaxCustom]

\* |sw/sh - tw/th| <= 0.01, the tolerance of spec.md 3 (1e-2).
withinEpsilon(sw, sh, tw, th) == 100 * Abs(sw * th - tw * sh) <= sh * th

evenBelow(num, den) == {2 * ((num \div den) \div 2)}

\* The value num/den rounded to the nearest even integer: both neighbours
\* when it is an odd integer.  This is round() followed by the rounding to
\* even that stays within 1 pixel of the value.
nearestEven(num, den) ==
    LET lo == 2 * ((num \div den) \div 2)
        hi == lo + 2
    IN  IF num - lo * den < hi * den - num THEN {lo}
        ELSE IF num - lo * den > hi * den - num THEN {hi}
        ELSE {lo, hi}

\* The Crop plans for a source and a target: no crop when the ratios are
\* equal within the tolerance, else the width cropped to height * r_t when
\* the source is too wide and the height to width / r_t when it is too tall;
\* every emitted value is even; the window is centred.
cropPlans(sw, sh, tw, th) ==
    LET ws == IF withinEpsilon(sw, sh, tw, th) \/ sw * th < tw * sh
              THEN nearestEven(sw, 1)
              ELSE nearestEven(sh * tw, th)
        hs == IF withinEpsilon(sw, sh, tw, th) \/ sw * th > tw * sh
              THEN nearestEven(sh, 1)
              ELSE nearestEven(sw * th, tw)
    IN  {[sw |-> sw, sh |-> sh, tw |-> tw, th |-> th, w |-> w, h |-> h,
          x |-> (sw - w) \div 2, y |-> (sh - h) \div 2] : w \in ws, h \in hs}

NoPlan ==
    [sw |-> 0, sh |-> 0, tw |-> 0, th |-> 0, w |-> 0, h |-> 0, x |-> 0, y |-> 0]

\* The planner is asked for a Crop plan.
PlanCrop ==
    /\ \E src \in SourceSizes, t \in TargetRatios :
           plan' \in cropPlans(src[1], src[2], t.width, t.height)
    /\ UNCHANGED <<uiVars, pvVars, jobVars, upVars>>

\* ------------------------------ PipelineOrchestrator (spec.md 4.8, 5, 7)

\* The states of 4.8 in their fixed order; Failed is reachable from any
\* other state.
STAGES ==
    <<"Pending", "Probing", "Planning", "Trimming", "Compositing",
      "Watermarking", "Concatenating", "Encoding", "Succeeded">>

OptionalStages == {"Trimming", "Compositing", "Watermarking", "Concatenating"}

\* The stages that invoke the external engine and write an artifact.
EngineStages == OptionalStages \cup {"Encoding"}

Terminal == {"Succeeded", "Failed"}

\* The ProcessingSpec of a job, as far as the orchestrator's control flow
\* depends on it: the four flags, whether the TimeRange and the TargetRatio
\* are valid, and the input's size.
ProcessingSpecs ==
    [enable_time_crop : BOOLEAN, enable_ratio_change : BOOLEAN,
     watermark : BOOLEAN, enable_cta : BOOLEAN,
     timeRangeValid : BOOLEAN, targetRatioValid : BOOLEAN,
     size : 1..MaxAssetSize]

\* "Each enabled stage (per ProcessingSpec flags)".
stageEnabled(s) ==
    CASE s = "Trimming" -> jobSpec[1].enable_time_crop
      [] s = "Compositing" -> jobSpec[1].enable_ratio_change
      [] s = "Watermarking" -> jobSpec[1].watermark
      [] s = "Concatenating" -> jobSpec[1].enable_cta
      [] OTHER -> TRUE

StageIndex(s) == CHOOSE i \in 1..Len(STAGES) : STAGES[i] = s

\* A successor that ignores the ProcessingSpec's flags.
nextStageInOrder(s) == STAGES[StageIndex(s) + 1]

\* The stage that follows s: the first later one that the spec enables.
nextStage(s) ==
    STAGES[CHOOSE i \in (StageIndex(s) + 1)..Len(STAGES) :
               /\ stageEnabled(STAGES[i])
               /\ \A k \in (StageIndex(s) + 1)..(i - 1) :
                      ~stageEnabled(STAGES[k])]

\* Seconds of engine time allowed per unit of input size.
TimeoutPerSize == 1

\* "a timeout proportional to input size" (spec.md 5).
timeout == TimeoutPerSize * jobSpec[1].size

\* The artifact a stage writes into the job's temp arena.
artifact(s, complete) == [stage |-> s, complete |-> complete]

finalArtifact == artifact("Encoding", TRUE)

\* The validation errors of 7.
ValidationErrors == {"InvalidTimeRangeError", "UnsupportedRatioError"}

\* Trimmer (4.4) and GeometryPlanner (4.2) validate when their feature is
\* enabled; neither touches the media.
planningError ==
    IF jobSpec[1].enable_time_crop /\ ~jobSpec[1].timeRangeValid
    THEN "InvalidTimeRangeError"
    ELSE IF jobSpec[1].enable_ratio_change /\ ~jobSpec[1].targetRatioValid
         THEN "UnsupportedRatioError"
         ELSE "none"

\* An engine that is handed the time range unvalidated and rejects it.
engineErrorsWithValidation ==
    {"EncodingError", "ResourceError", "InvalidTimeRangeError"}

\* What a failed engine invocation reports (7: detected after invocation).
engineErrors == {"EncodingError", "ResourceError"}

\* A purge that removes only the artifact being written.
arenaWithoutPartial == {a \in tempArtifacts : a.complete}

\* "On Failed, all artifacts created by this job are deleted."
arenaOnFailure == {}

\* "on Succeeded, only the final artifact is retained and all intermediates
\* are deleted."
arenaOnSuccess == {finalArtifact}

\* A process request is accepted: the Job is created, Pending, with an empty
\* temp arena.
AcceptJob ==
    /\ stage = "None"
    /\ \E spec \in ProcessingSpecs : jobSpec' = Def(spec)
    /\ stage' = "Pending"
    /\ history' = <<"Pending">>
    /\ UNCHANGED <<tempArtifacts, active, elapsed, jobError, result,
                   engineCalls, artifactsCreated>>
    /\ UNCHANGED <<cancelRequested, assets, peerVars>>
    /\ UNCHANGED <<uiVars, pvVars, upVars, plan>>

\* The uploaded assets, and how an engine stage leaves them: it reads its
\* input and writes its artifact into the arena ("referenced, never copied",
\* "never mutates the original uploaded assets").
AssetIds == {"main", "cta"}

assetsTrimmedInPlace(s) ==
    IF s = "Trimming" THEN [assets EXCEPT !["main"] = "trimmed"] ELSE assets

assetsAfter(s) == assets

\* Enter a stage that does not invoke the engine (Probing, Planning).
enter(s) ==
    /\ stage' = s
    /\ history' = Append(history, s)
    /\ UNCHANGED <<jobSpec, tempArtifacts, active, elapsed, jobError, result,
                   engineCalls, artifactsCreated>>
    /\ UNCHANGED <<cancelRequested, assets, peerVars>>

\* Enter an engine stage: the previous stage's artifact, if one was being
\* written, is complete; the engine is invoked and starts writing this
\* stage's artifact into the arena.
startStage(s) ==
    /\ stage' = s
    /\ history' = Append(history, s)
    /\ active' = {s}
    /\ elapsed' = 0
    /\ engineCalls' = engineCalls + 1
    /\ tempArtifacts' =
           {artifact(a.stage, TRUE) : a \in tempArtifacts}
               \cup {artifact(s, FALSE)}
    /\ artifactsCreated' = artifactsCreated + 1
    /\ assets' = assetsAfter(s)
    /\ UNCHANGED <<jobSpec, jobError, result>>
    /\ UNCHANGED <<cancelRequested, peerVars>>

\* any state -> Failed: the invocation in progress is over, the arena is
\* purged, then the error is surfaced.
fail(err) ==
    /\ stage' = "Failed"
    /\ history' = Append(history, "Failed")
    /\ active' = {}
    /\ tempArtifacts' = arenaOnFailure
    /\ jobError' = err
    /\ UNCHANGED <<jobSpec, elapsed, result, engineCalls, artifactsCreated>>
    /\ UNCHANGED <<assets, peerVars>>

\* Encoding -> Succeeded: the final artifact is the result.
succeed ==
    /\ stage' = "Succeeded"
    /\ history' = Append(history, "Succeeded")
    /\ active' = {}
    /\ tempArtifacts' = arenaOnSuccess
    /\ result' = Def(finalArtifact)
    /\ UNCHANGED <<jobSpec, elapsed, jobError, engineCalls, artifactsCreated>>
    /\ UNCHANGED <<cancelRequested, assets, peerVars>>

StartProbing ==
    /\ stage = "Pending"
    /\ enter(nextStage("Pending"))
    /\ UNCHANGED <<uiVars, pvVars, upVars, plan>>

\* MediaProbe (4.1) is read-only and fails with ProbeError.
ProbeSucceeds ==
    /\ stage = "Probing"
    /\ enter(nextStage("Probing"))
    /\ UNCHANGED <<uiVars, pvVars, upVars, plan>>

ProbeFails ==
    /\ stage = "Probing"
    /\ fail("ProbeError")
    /\ UNCHANGED cancelRequested
    /\ UNCHANGED <<uiVars, pvVars, upVars, plan>>

\* Planning: the validations, then the first engine stage.
Plan ==
    /\ stage = "Planning"
    /\ IF planningError # "none"
       THEN fail(planningError) /\ UNCHANGED cancelRequested
       ELSE startStage(nextStage("Planning"))
    /\ UNCHANGED <<uiVars, pvVars, upVars, plan>>

engineRunning == stage \in EngineStages /\ active = {stage}

cancelIgnored == FALSE

\* A cancellation has been requested: whatever the engine returns from now
\* on is discarded.
cancelPending == cancelRequested

timedOut == engineRunning /\ elapsed >= timeout

\* The engine invocation of the current stage returns in time.
EngineCompletes ==
    /\ engineRunning /\ ~timedOut /\ ~cancelPending
    /\ IF nextStage(stage) = "Succeeded"
       THEN succeed
       ELSE startStage(nextStage(stage))
    /\ UNCHANGED <<uiVars, pvVars, upVars, plan>>

\* The engine invocation fails (non-zero exit, no temp space).
EngineFails ==
    /\ engineRunning /\ ~timedOut /\ ~cancelPending
    /\ \E err \in engineErrors : fail(err)
    /\ UNCHANGED cancelRequested
    /\ UNCHANGED <<uiVars, pvVars, upVars, plan>>

\* Time passes while the engine runs.
Tick ==
    /\ engineRunning /\ ~timedOut
    /\ elapsed' = elapsed + 1
    /\ UNCHANGED <<jobSpec, stage, tempArtifacts, active, jobError, result,
                   history, engineCalls, artifactsCreated>>
    /\ UNCHANGED <<cancelRequested, assets, peerVars>>
    /\ UNCHANGED <<uiVars, pvVars, upVars, plan>>

\* A timeout handled by invoking the engine again for the same stage.
retryOnTimeout ==
    /\ elapsed' = 0
    /\ engineCalls' = engineCalls + 1
    /\ UNCHANGED <<jobSpec, stage, tempArtifacts, active, jobError, result,
                   history, artifactsCreated, assets, peerVars>>

\* "exceeding it is a Failed terminal state, not a retry".
onTimeout == fail("TimeoutError")

EngineTimesOut ==
    /\ timedOut
    /\ onTimeout
    /\ UNCHANGED cancelRequested
    /\ UNCHANGED <<uiVars, pvVars, upVars, plan>>

\* The caller cancels the job (spec.md 5): between stages the job ends at
\* once; during a stage the external process is told to terminate.
CancelJob ==
    /\ stage \notin {"None"} \cup Terminal
    /\ ~cancelRequested
    /\ cancelRequested' = TRUE
    /\ IF engineRunning
       THEN UNCHANGED <<jobSpec, stage, tempArtifacts, active, elapsed,
                        jobError, result, history, engineCalls,
                        artifactsCreated, assets, peerVars>>
       ELSE fail("Cancelled")
    /\ UNCHANGED <<uiVars, pvVars, upVars, plan>>

\* The cancelled invocation is over (terminated, or returned on its own):
\* the arena is discarded.
EngineTerminated ==
    /\ engineRunning /\ cancelRequested
    /\ fail("Cancelled")
    /\ UNCHANGED cancelRequested
    /\ UNCHANGED <<uiVars, pvVars, upVars, plan>>

\* A second job on the same uploaded assets, running concurrently in its own
\* arena: accepted, then Succeeded with its final artifact or Failed with
\* nothing.
PeerAccept ==
    /\ peerStage = "None"
    /\ peerStage' = "Running"
    /\ peerArena' = {artifact("Encoding", FALSE)}
    /\ UNCHANGED <<jobSpec, stage, tempArtifacts, active, elapsed, jobError,
                   result, history, engineCalls, artifactsCreated,
                   cancelRequested, assets>>
    /\ UNCHANGED <<uiVars, pvVars, upVars, plan>>

PeerSucceeds ==
    /\ peerStage = "Running"
    /\ peerStage' = "Succeeded"
    /\ peerArena' = {finalArtifact}
    /\ UNCHANGED <<jobSpec, stage, tempArtifacts, active, elapsed, jobError,
                   result, history, engineCalls, artifactsCreated,
                   cancelRequested, assets>>
    /\ UNCHANGED <<uiVars, pvVars, upVars, plan>>

PeerFails ==
    /\ peerStage = "Running"
    /\ peerStage' = "Failed"
    /\ peerArena' = {}
    /\ UNCHANGED <<jobSpec, stage, tempArtifacts, active, elapsed, jobError,
                   result, history, engineCalls, artifactsCreated,
                   cancelRequested, assets>>
    /\ UNCHANGED <<uiVars, pvVars, upVars, plan>>

\* ------------------------------------------------------------------ Init

InitVideoProcessor ==
    /\ mainVideo = NoVideo
    /\ ctaVideo = NoVideo
    /\ isProcessing = FALSE
    /\ error = Null
    /\ success = Null
    /\ processingOptions = [f \in OptionFields |-> Undefined]
    /\ processedVideo = Null

InitApi ==
    /\ request = NoRequest
    /\ pending = "none"
    /\ retryCount = 0
    /\ posts = 0
    /\ rejection = NoError

InitProcessingOptions ==
    /\ enableTimeCrop = FALSE
    /\ enableRatioChange = FALSE
    /\ enableCta = FALSE
    /\ startTime = 0
    /\ endTime = 0
    /\ selectedRatioPreset = 0
    /\ customWidth = 16
    /\ customHeight = 9
    /\ resizeMethod = "crop"
    /\ blurBackground = FALSE
    /\ optCtaVideo = NoVideo
    /\ qualityPreset = "high"

InitVideoTimeline ==
    /\ isPlaying = FALSE
    /\ playhead = 0
    /\ paused = TRUE
    /\ previewProgress = 0

\* useState of AspectRatioPreview lines 35-38; no request has been made.
InitAspectRatioPreview ==
    /\ previewFileId = Undefined
    /\ loading = FALSE
    /\ previewError = Null
    /\ lastRequestString = Undefined
    /\ previewsIssued = 0
    /\ previewsInFlight = {}
    /\ previewsSucceeded = {}

\* No job has been accepted yet.
InitJob ==
    /\ jobSpec = Undefined
    /\ stage = "None"
    /\ tempArtifacts = {}
    /\ active = {}
    /\ elapsed = 0
    /\ jobError = "none"
    /\ result = Undefined
    /\ history = <<>>
    /\ engineCalls = 0
    /\ artifactsCreated = 0
    /\ cancelRequested = FALSE
    /\ assets = [a \in AssetIds |-> "uploaded"]
    /\ peerStage = "None"
    /\ peerArena = {}

\* Nothing has been dropped yet.
InitVideoUpload ==
    /\ dropped = NoFile
    /\ alertText = Null
    /\ upPending = "none"
    /\ upRetryCount = 0
    /\ upAttempts = 0
    /\ uploadTimeout = 0
    /\ configTimeout = 0

Init ==
    /\ InitVideoProcessor /\ InitApi /\ InitProcessingOptions
    /\ InitVideoTimeline /\ InitAspectRatioPreview /\ InitJob
    /\ InitVideoUpload
    /\ plan = NoPlan

\* ------------------------------------------- the time cropping behaviours

NextTime ==
    \/ MainVideoUpload
    \/ TimeCropToggle
    \/ RangeChange
    \/ StartTimeChange
    \/ EndTimeChange
    \/ SetStartTime
    \/ SetEndTime
    \/ TimelineClick
    \/ PlayPause
    \/ Replay
    \/ VideoTimeUpdate

SpecTime == Init /\ [][NextTime]_vars

\* ------------------------------------- the aspect ratio form's behaviours

NextRatio ==
    \/ MainVideoUpload
    \/ RatioChangeToggle
    \/ RatioPresetChange
    \/ CustomWidthChange
    \/ CustomHeightChange
    \/ ResizeMethodChange
    \/ BlurBackgroundChange

SpecRatio == Init /\ [][NextRatio]_vars

\* ---------------------------------------------- the processing behaviours

NextProcess ==
    \/ MainVideoUpload
    \/ TimeCropToggle
    \/ RatioChangeToggle
    \/ CtaToggle
    \/ CtaVideoUpload
    \/ ProcessClick
    \/ ProcessSucceeds
    \/ ProcessFails
    \/ RetryRequest

SpecProcess == Init /\ [][NextProcess]_vars

\* ------------------------------- the CTA and quality options' behaviours

NextOptions ==
    \/ MainVideoUpload
    \/ CtaToggle
    \/ CtaVideoUpload
    \/ CtaChipDelete
    \/ QualityCardClick
    \/ ProcessClick
    \/ ProcessSucceeds
    \/ ProcessFails
    \/ RetryRequest

SpecOptions == Init /\ [][NextOptions]_vars

\* The processing behaviours together with invocations of handleProcessVideo
\* that bypass the disabled button.
NextInvoke == NextProcess \/ ProcessInvoke

SpecInvoke == Init /\ [][NextInvoke]_vars

\* -------------------------------------------- the preview's behaviours

NextPreview ==
    \/ MainVideoUpload
    \/ RatioChangeToggle
    \/ RatioPresetChange
    \/ ResizeMethodChange
    \/ PreviewRefresh
    \/ PreviewResponse
    \/ PreviewFailure

SpecPreview == Init /\ [][NextPreview]_vars

\* Every preview request is answered or fails (the client's timeout); the
\* component schedules nothing else: no timer of its effect survives the
\* render that follows setLastRequestString.
SpecPreviewFair == SpecPreview /\ WF_vars(PreviewResponse \/ PreviewFailure)

\* -------------------------------------------------- the upload's behaviours

NextUpload ==
    \/ Drop
    \/ UploadSucceeds
    \/ UploadFails
    \/ UploadRetry

SpecUpload == Init /\ [][NextUpload]_vars

\* ------------------------------------------------ the planner's behaviours

NextPlan == PlanCrop

SpecPlan == Init /\ [][NextPlan]_vars

\* ------------------------------------------------- one job's behaviours

NextJob ==
    \/ AcceptJob
    \/ StartProbing
    \/ ProbeSucceeds
    \/ ProbeFails
    \/ Plan
    \/ EngineCompletes
    \/ EngineFails
    \/ Tick
    \/ EngineTimesOut
    \/ CancelJob
    \/ EngineTerminated
    \/ PeerAccept
    \/ PeerSucceeds
    \/ PeerFails

SpecJob == Init /\ [][NextJob]_vars

\* The orchestrator takes its own steps and time passes; nothing is assumed
\* of the engine, which may never return.
SpecJobFair ==
    /\ SpecJob
    /\ WF_vars(StartProbing)
    /\ WF_vars(ProbeSucceeds \/ ProbeFails)
    /\ WF_vars(Plan)
    /\ WF_vars(Tick)
    /\ WF_vars(EngineTimesOut)
    /\ WF_vars(EngineTerminated)

\* ------------------------------------------------------------ claims

\* C3: whenever the options held for the next process request have
\* enable_time_crop = true, their range satisfies
\* 0 <= start_time < end_time <= duration of the current main video.
C3_TimeRangeWithinVideo ==
    (mainVideo # NoVideo /\ Truthy(processingOptions.enable_time_crop)) =>
        /\ IsDef(processingOptions.start_time)
        /\ IsDef(processingOptions.end_time)
        /\ 0 <= processingOptions.start_time[1]
        /\ processingOptions.start_time[1] < processingOptions.end_time[1]
        /\ processingOptions.end_time[1] <= duration

\* C8: blur is active only together with the Pad method: in the options held
\* for the next process request, blur_background = true implies
\* resize_method = 'pad'.
C8_BlurOnlyWithPad ==
    Truthy(processingOptions.blur_background) =>
        processingOptions.resize_method = Def("pad")

\* C9: whenever the options held by the parent have enable_ratio_change = true
\* they also contain a target_ratio.
C9_RatioChangeHasTargetRatio ==
    Truthy(processingOptions.enable_ratio_change) =>
        IsDef(processingOptions.target_ratio)

\* C10: every target_ratio emitted by the options form has positive width
\* and height.
C10_TargetRatioPositive ==
    IsDef(processingOptions.target_ratio) =>
        /\ processingOptions.target_ratio[1].width > 0
        /\ processingOptions.target_ratio[1].height > 0

\* C4: a processing job is never retried automatically: one click on
\* Process causes at most one POST /process.
C4_OnePostPerClick == posts <= 1

\* C11: a dropped file in an advertised format and within the advertised
\* size passes validateVideoFile: it is not answered with the "valid video
\* file" alert.
C11_AdvertisedFormatsAccepted ==
    (dropped.format \in AdvertisedFormats /\ dropped.size <= maxSize) =>
        alertText # "Please select a valid video file (MP4, AVI, MOV)"

\* What C12 asks of a plan: even dimensions; only the dimension that is too
\* large is cropped (whichever ratio comparison decides it); the window is
\* centred and inside the source; the width is within 1 pixel of
\* height * r_t or the height within 1 pixel of width / r_t.
cropPlanGood(tooWide, tooTall) ==
    /\ plan.w % 2 = 0 /\ plan.h % 2 = 0
    /\ tooWide => plan.w < plan.sw /\ plan.h = plan.sh
    /\ tooTall => plan.h < plan.sh /\ plan.w = plan.sw
    /\ (~tooWide /\ ~tooTall) => plan.w = plan.sw /\ plan.h = plan.sh
    /\ plan.x >= 0 /\ plan.x + plan.w <= plan.sw
    /\ plan.y >= 0 /\ plan.y + plan.h <= plan.sh
    /\ Abs(2 * plan.x + plan.w - plan.sw) <= 1
    /\ Abs(2 * plan.y + plan.h - plan.sh) <= 1
    /\ \/ Abs(plan.w * plan.th - plan.h * plan.tw) <= plan.th
       \/ Abs(plan.h * plan.tw - plan.w * plan.th) <= plan.tw

C15_WarningWithinTolerance ==
    (blurCheckShown /\ targetRatio.width > 0 /\ targetRatio.height > 0) =>
        (blurAlert = "Same Aspect Ratio"
            <=> 100 * Abs(mainVideo.size[1] * targetRatio.height
                             - targetRatio.width * mainVideo.size[2])
                    <= mainVideo.size[2] * targetRatio.height)

C17_AtMostThreeRetries ==
    /\ [](retryCount <= 3 /\ posts <= 4)
    /\ [](pending # "none" =>
             posts = retryCount + (IF pending = "sent" THEN 1 ELSE 0))
    /\ [][(pending = "sent" /\ pending' = "retryWait") =>
             (retryCount < 3 /\ retryCount' = retryCount + 1)]_vars
    /\ [][pending = "retryWait" =>
             (pending' = "retryWait" \/ (pending' = "sent" /\ posts' = posts + 1))]_vars
    /\ [][(rejection' # rejection /\ rejection' # NoError) =>
             (retryCount = 3 \/ ~rejection'[1].config)]_vars

\* C17 witness: a call has been rejected after its fourth attempt.
C17_Witness ==
    /\ pending = "none"
    /\ posts = 4 /\ retryCount = 3
    /\ rejection # NoError /\ rejection[1].config

\* The number of started 100 MB of a file of n MB: the least k with
\* 100 * k >= n.
startedHundreds(n) ==
    CHOOSE k \in 0..n : 100 * k >= n /\ \A j \in 0..(k - 1) : 100 * j < n

\* C19: while an upload is under way (first attempt, retry wait or retry)
\* the timeout set by the request interceptor equals the one uploadVideo
\* passed, both are 300000 ms plus 60000 ms per started 100 MB of the file,
\* never below 300000 ms, and a larger file never gets a smaller timeout.
C19_UploadTimeout ==
    /\ upPending # "none" =>
          /\ configTimeout = uploadTimeout
          /\ uploadTimeout = 300000 + 60000 * startedHundreds(dropped.size)
          /\ uploadTimeout >= 300000
    /\ \A f, g \in Files :
          f.size <= g.size => uploadTimeoutOf(f) <= uploadTimeoutOf(g)

\* The third attempt of a 101 MB file carries 7 minutes.
C19_Witness ==
    /\ upPending = "sent" /\ upAttempts = 3
    /\ dropped.size = 101
    /\ configTimeout = 420000 /\ uploadTimeout = 420000

C22_TypedTimesClamped ==
    /\ [][StartTimeChange =>
            /\ processingOptions'.start_time = Def(startTime')
            /\ processingOptions'.end_time = Def(endTime')
            /\ 0 <= startTime' /\ startTime' <= endTime' - Tenth
            /\ endTime' = propEndTime]_vars
    /\ [][EndTimeChange =>
            /\ processingOptions'.start_time = Def(startTime')
            /\ processingOptions'.end_time = Def(endTime')
            /\ startTime' + Tenth <= endTime' /\ endTime' <= duration
            /\ startTime' = startTime]_vars

\* C23: after a preset is selected or a custom width or height is edited,
\* the target_ratio of the options handed to the parent is the ratio the
\* form now shows as selected.
C23_EmittedRatioIsSelected ==
    [][(RatioPresetChange \/ CustomWidthChange \/ CustomHeightChange) =>
          processingOptions'.target_ratio = Def(targetRatio')]_vars

\* C24: choosing a quality preset in the form leaves the options held by
\* the parent with that preset as their quality_preset.
C24_ChosenQualityIsEmitted ==
    [][QualityCardClick =>
          processingOptions'.quality_preset = Def(qualityPreset')]_vars

\* C25: while the form holds no CTA video (it was removed, or none was
\* uploaded), no process request that is sent carries a cta_video_id.
C25_RemovedCtaNotSent ==
    [][(posts' # posts /\ optCtaVideo = NoVideo) =>
          ~IsDef(request'["cta_video_id"])]_vars

\* C26: VideoProcessor's error message and success message are never both
\* set.
C26_ErrorAndSuccessExclusive == ~(error # Null /\ success # Null)

\* C20: every POST /process, first attempt or retry, is sent from a state
\* with a main video and at least one of enable_time_crop,
\* enable_ratio_change, enable_cta true in processingOptions, and carries a
\* video id and a true flag; handleProcessVideo invoked with no main video
\* sends nothing, sets the error 'Please upload a main video first' and
\* leaves isProcessing false.
C20_SentOnlyWhenProcessable ==
    /\ [][posts' # posts =>
            /\ mainVideo # NoVideo
            /\ \/ Truthy(processingOptions.enable_time_crop)
               \/ Truthy(processingOptions.enable_ratio_change)
               \/ Truthy(processingOptions.enable_cta)
            /\ IsDef(request'["main_video_id"])
            /\ \/ Truthy(request'["enable_time_crop"])
               \/ Truthy(request'["enable_ratio_change"])
               \/ Truthy(request'["enable_cta"])]_vars
    /\ [][ProcessInvoke =>
            /\ error' = "Please upload a main video first"
            /\ posts' = posts /\ pending' = pending /\ request' = NoRequest
            /\ ~isProcessing']_vars
    /\ [](mainVideo = NoVideo => posts = 0 /\ pending = "none" /\ ~isProcessing)

\* handleProcessVideo has been invoked with no main video.
C20_Witness ==
    /\ mainVideo = NoVideo
    /\ error = "Please upload a main video first"
    /\ posts = 0 /\ pending = "none" /\ ~isProcessing
    /\ Truthy(processingOptions.enable_cta)

\* The preview requests of a video whose time crop is off, one per ratio
\* preset, resize method and blur setting.
PreviewRequests ==
    { [ main_video_id    |-> v.fileId,
        target_ratio     |-> [width  |-> IF PresetAt(p).label = "Custom"
                                         THEN 16 ELSE PresetAt(p).width,
                              height |-> IF PresetAt(p).label = "Custom"
                                         THEN 9 ELSE PresetAt(p).height],
        resize_method    |-> m,
        blur_background  |-> b,
        enable_time_crop |-> FALSE,
        start_time       |-> 0 ] :
      v \in MainVideos, p \in PresetIndexes, m \in RESIZE_METHODS,
      b \in BOOLEAN }

\* The effect has seen request r, r is the current request and the preview
\* is enabled: the debounce window of r is open or has passed.
debounced(r) ==
    /\ previewMounted /\ enabled
    /\ createPreviewRequest = r
    /\ lastRequestString = Def(r)

\* C18: while the preview is enabled, a preview request that the effect has
\* seen and that stays the current one leads to an invocation of
\* generatePreview: from every state where r is debounced after n
\* invocations, either the request changes, the preview is disabled, or
\* another invocation follows.
C18_AutoPreviewAfterDebounce ==
    \A r \in PreviewRequests : \A n \in 0..MaxPreviewCalls :
        (debounced(r) /\ previewsIssued = n)
            ~> (previewsIssued > n \/ ~debounced(r))

\* The order of stages the job's ProcessingSpec prescribes.
expectedOrder == SelectSeq(STAGES, LAMBDA s :
    \/ s \notin OptionalStages
    \/ s = "Trimming" /\ jobSpec[1].enable_time_crop
    \/ s = "Compositing" /\ jobSpec[1].enable_ratio_change
    \/ s = "Watermarking" /\ jobSpec[1].watermark
    \/ s = "Concatenating" /\ jobSpec[1].enable_cta)

\* C1: the stages a job has entered are, in order, a beginning of the fixed
\* order restricted to the optional stages its spec enables (so no stage is
\* entered twice, out of order, or without being enabled, and no enabled one
\* is skipped), possibly followed by Failed entered from a non-terminal
\* state; and at most one stage, the current one, is active.
C1_StagesInFixedOrder ==
    stage # "None" =>
        /\ \E n \in 1..Len(expectedOrder) :
               \/ history = SubSeq(expectedOrder, 1, n)
               \/ /\ n < Len(expectedOrder)
                  /\ history = Append(SubSeq(expectedOrder, 1, n), "Failed")
        /\ stage = history[Len(history)]
        /\ Cardinality(active) <= 1
        /\ active \subseteq {stage}

\* C1 witness: a job with trimming and watermarking enabled, compositing
\* and concatenation disabled, has succeeded.
C1_Witness ==
    history = <<"Pending", "Probing", "Planning", "Trimming", "Watermarking",
                "Encoding", "Succeeded">>

\* C2: a Failed job has left no artifact in its arena, a Succeeded job
\* exactly the complete final artifact, and a result is returned only by a
\* Succeeded job and is that final artifact.
C2_AllOrNothing ==
    /\ stage = "Failed" => tempArtifacts = {}
    /\ stage = "Succeeded" => tempArtifacts = {finalArtifact}
    /\ IsDef(result) => stage = "Succeeded" /\ result = Def(finalArtifact)
    /\ stage = "Failed" => result = Undefined

\* C2 witness: a job failed in its third engine stage, after two complete
\* intermediates and one partial artifact, and nothing is left.
C2_Witness ==
    /\ stage = "Failed"
    /\ jobError = "EncodingError"
    /\ artifactsCreated = 3
    /\ tempArtifacts = {}

C7_EveryJobTerminates ==
    /\ (stage = "Pending") ~> (stage \in Terminal)
    /\ [][timedOut => /\ engineCalls' = engineCalls
                      /\ elapsed' = elapsed
                      /\ \/ stage' = stage
                         \/ /\ stage' = "Failed"
                            /\ jobError' \in {"TimeoutError", "Cancelled"}]_vars

\* C7 witness: the second engine invocation of a job timed out and the job
\* is Failed.
C7_Witness ==
    /\ stage = "Failed"
    /\ jobError = "TimeoutError"
    /\ engineCalls = 2
    /\ elapsed = timeout

C14_CancelTakesEffect ==
    /\ [](cancelRequested => stage # "Succeeded")
    /\ []((cancelRequested /\ stage = "Failed") => tempArtifacts = {})
    /\ [][cancelRequested => /\ engineCalls' = engineCalls
                             /\ stage' \in {stage, "Failed"}]_vars
    /\ [][(~cancelRequested /\ cancelRequested' /\ ~engineRunning)
              => stage' = "Failed"]_vars
    /\ cancelRequested ~> (stage = "Failed")

\* C14 witness: a job cancelled during its second engine invocation is
\* Failed and its arena is empty.
C14_Witness ==
    /\ cancelRequested
    /\ stage = "Failed" /\ jobError = "Cancelled"
    /\ artifactsCreated = 2
    /\ tempArtifacts = {}
    /\ peerStage = "None"

\* The response of the latest preview request that succeeded (null when none
\* did).
latestSucceeded ==
    IF previewsSucceeded = {} THEN Undefined
    ELSE Def(CHOOSE n \in previewsSucceeded :
                 \A k \in previewsSucceeded : k <= n)

====
